---------------------------- MODULE Spec2Model ----------------------------
(***************************************************************************)
(* The persistent tutorial service (01_API/api_tutorial.py): FastAPI       *)
(* handlers over one SQLite file with the tables items and users.          *)
(*                                                                         *)
(* Modelling conventions                                                   *)
(*  - A Python Optional value is a record [some, val]; some = FALSE is     *)
(*    None.  An SQL column value that may be NULL uses the same shape.     *)
(*  - Text that the LIKE operator inspects (item names, the name filter)   *)
(*    is a sequence of one-character strings.                              *)
(*  - Prices are REAL in the store; the model keeps them as integers in    *)
(*    hundredths (999.99 is 99999).  Only their order is used.             *)
(*  - The committed content of the database file is items, itemSeq,        *)
(*    users, userSeq (the *Seq variables are the rows of sqlite_sequence   *)
(*    that AUTOINCREMENT maintains).  A write handler runs in two steps:   *)
(*    its statement (which takes the store's write lock and leaves the     *)
(*    change pending in the connection's transaction, tx) and its          *)
(*    commit/close/return.  Read handlers take one step.                   *)
(***************************************************************************)
EXTENDS Integers, Sequences, FiniteSets, TLC

VARIABLES
    items,      \* committed rows of table items:  id -> [name, price, is_offer]
    itemSeq,    \* sqlite_sequence.seq for items
    users,      \* committed rows of table users:  id -> [username, email, full_name]
    userSeq,    \* sqlite_sequence.seq for users
    tx,         \* the open write transaction (the holder of the write lock), or NoTx
    resp,       \* the response of the request that ended in the last step, or NoResp
    deleted,    \* history: item ids a DELETE request removed successfully
    everItem,   \* history: every id ever given to a committed items row
    everUser,   \* history: every id ever given to a committed users row
    posted      \* history: id -> [item, updated] for rows made by POST /items/ and not deleted since

vars == <<items, itemSeq, users, userSeq, tx, resp, deleted, everItem, everUser, posted>>

store == <<items, itemSeq, users, userSeq>>

-----------------------------------------------------------------------------
(* Bounds of the model *)

\* POST /items/ is offered while the items sequence is below this id.
MaxItemId == 6

\* A restart that re-seeds an empty items table is offered while the five new
\* ids stay at or below this id.
MaxSeedId == 10

\* A POST /users/ that adds a row is offered while the users sequence is below this id.
MaxUserId == 4

-----------------------------------------------------------------------------
(* Optional values *)

Some(v) == [some |-> TRUE, val |-> v]

NoneInt == [some |-> FALSE, val |-> 0]

NoneBool == [some |-> FALSE, val |-> FALSE]

NoneStr == [some |-> FALSE, val |-> ""]

NoneText == [some |-> FALSE, val |-> <<>>]

\* Python -> SQLite binding of an Optional[bool]: None is NULL, True is 1, False is 0.
BindBool(b) == IF b.some THEN Some(IF b.val THEN 1 ELSE 0) ELSE NoneInt

\* bool(row[3]) alone: NULL reads as False.
ReadBoolOfNull(v) == Some(v.some /\ v.val # 0)

\* bool(row[3]) if row[3] is not None else None
ReadBool(v) == IF v.some THEN Some(v.val # 0) ELSE NoneBool

-----------------------------------------------------------------------------
(* Sample rows of init_db *)

dummy_items ==
    << [name |-> <<"L","a","p","t","o","p">>,                 price |-> 99999, is_offer |-> Some(TRUE)],
       [name |-> <<"M","o","u","s","e">>,                     price |-> 2550,  is_offer |-> Some(FALSE)],
       [name |-> <<"K","e","y","b","o","a","r","d">>,         price |-> 7500,  is_offer |-> Some(TRUE)],
       [name |-> <<"M","o","n","i","t","o","r">>,             price |-> 29999, is_offer |-> Some(FALSE)],
       [name |-> <<"H","e","a","d","p","h","o","n","e","s">>, price |-> 14999, is_offer |-> Some(TRUE)] >>

dummy_users ==
    << [username |-> "john_doe",     email |-> "john@example.com",  full_name |-> Some("John Doe")],
       [username |-> "jane_smith",   email |-> "jane@example.com",  full_name |-> Some("Jane Smith")],
       [username |-> "alice_wonder", email |-> "alice@example.com", full_name |-> Some("Alice Wonderland")] >>

-----------------------------------------------------------------------------
(* The store *)

MaxOf(S) == IF S = {} THEN 0 ELSE CHOOSE m \in S : \A x \in S : x <= m

\* INTEGER PRIMARY KEY without AUTOINCREMENT: one more than the largest rowid in the table.
RowidWithoutAutoincrement(table, seq) == MaxOf(DOMAIN table) + 1

\* INTEGER PRIMARY KEY AUTOINCREMENT: one more than the largest rowid the
\* table has ever held (sqlite_sequence.seq), whatever rows are left.
NextRowid(table, seq) == MaxOf(DOMAIN table \cup {seq}) + 1

\* The row an INSERT INTO items (name, price, is_offer) stores.
ItemRow(name, price, is_offer) ==
    [name |-> name, price |-> price, is_offer |-> BindBool(is_offer)]

\* executemany("INSERT INTO items ..."): the rows of a list, each at the next rowid.
RECURSIVE InsertAll(_, _, _)
InsertAll(table, seq, rows) ==
    IF rows = <<>> THEN [table |-> table, seq |-> seq]
    ELSE LET id == NextRowid(table, seq)
         IN  InsertAll((id :> Head(rows)) @@ table, id, Tail(rows))

Without(table, id) == [i \in DOMAIN table \ {id} |-> table[i]]


\* init_db: CREATE TABLE IF NOT EXISTS keeps existing tables (and their
\* sequences); each table is filled with its sample rows when it holds no row.
InitDb(its, iseq, us, useq) ==
    LET i == IF Cardinality(DOMAIN its) = 0
             THEN InsertAll(its, iseq,
                            [k \in DOMAIN dummy_items |->
                               ItemRow(dummy_items[k].name, dummy_items[k].price, dummy_items[k].is_offer)])
             ELSE [table |-> its, seq |-> iseq]
        u == IF Cardinality(DOMAIN us) = 0
             THEN InsertAll(us, useq, dummy_users)
             ELSE [table |-> us, seq |-> useq]
    IN  [items |-> i.table, itemSeq |-> i.seq, users |-> u.table, userSeq |-> u.seq]

EmptyTable == <<>>

-----------------------------------------------------------------------------
(* Requests offered to the service *)

\* Item bodies (class Item): id is optional and a client may send one.
ItemBodies ==
    { [id |-> NoneInt, name |-> <<"P","e","n">>, price |-> 150,   is_offer |-> NoneBool],
      [id |-> Some(1), name |-> <<"p","e","n">>, price |-> 12000, is_offer |-> Some(TRUE)] }

\* User bodies (class User): two collide with a sample user (one on the
\* username, one on the email), one is new.
UserBodies ==
    { [id |-> NoneInt, username |-> "john_doe", email |-> "new@example.com",  full_name |-> NoneStr],
      [id |-> NoneInt, username |-> "new_user", email |-> "jane@example.com", full_name |-> NoneStr],
      [id |-> Some(1), username |-> "bob",      email |-> "bob@example.com",  full_name |-> Some("Bob")] }

\* The body PUT requests carry.
UpdateBodies == {b \in ItemBodies : b.id.some}

\* The first id a POST /items/ can get after the first startup.
FirstNewId == Len(dummy_items) + 1

\* Path ids of DELETE: every id the store can assign within the bounds, and 999.
DeleteIds == (1 .. MaxSeedId) \cup {999}

\* Path ids of PUT and of GET .../status: the first new row (made by a POST,
\* or the first sample row of a re-seeded table) and 999.
PathIds == {FirstNewId, 999}

\* (item_id, q) of GET /items/{item_id}
ReadRequests == { <<1, Some("x")>>, <<999, NoneStr>> }

-----------------------------------------------------------------------------
(* Responses *)

NoTx == [op |-> "none"]

NoResp == [op |-> "none"]

\* Item(id=..., name=..., price=..., is_offer=...)
Item(id, name, price, is_offer) ==
    [id |-> id, name |-> name, price |-> price, is_offer |-> is_offer]

\* Item(id=row[0], name=row[1], price=row[2], is_offer=bool(row[3]) if row[3] is not None else None)
ItemOfRow(id, row) == Item(Some(id), row.name, row.price, ReadBool(row.is_offer))

\* The rows of a SELECT over a set of rowids, in rowid order, as Item objects.
RECURSIVE ItemsOf(_, _)
ItemsOf(table, ids) ==
    IF ids = {} THEN <<>>
    ELSE LET id == CHOOSE i \in ids : \A j \in ids : i <= j
         IN  <<ItemOfRow(id, table[id])>> \o ItemsOf(table, ids \ {id})

\* What a finished request leaves in resp: the handler, the request it was
\* given, the status and body of the answer, whether the handler had closed
\* its connection when it ended, and whether it had committed.
Reply(op, req, body, committed) ==
    [op |-> op, req |-> req, status |-> 200, body |-> body,
     conn |-> "closed", committed |-> committed]

\* raise HTTPException(status_code=..., detail=...) after conn.close()
HttpError(op, req, code, detail) ==
    [op |-> op, req |-> req, status |-> code, body |-> [detail |-> detail],
     conn |-> "closed", committed |-> FALSE]

\* A store error the handler does not catch (sqlite3.OperationalError:
\* database is locked): the exception leaves the handler before conn.close().
Unhandled(op) ==
    [op |-> op, req |-> <<>>, status |-> 500, body |-> [detail |-> "Internal Server Error"],
     conn |-> "open", committed |-> FALSE]

\* The router's own answer when no handler is registered for the request.
RouterError(op, req, code) ==
    [op |-> op, req |-> req, status |-> code, body |-> [detail |-> "no handler"],
     conn |-> "none", committed |-> FALSE]

-----------------------------------------------------------------------------
(* Routing: the (method, path) pairs the decorators of api_tutorial.py register *)

Routes ==
    { <<"GET", "/">>,
      <<"GET", "/items/">>,
      <<"POST", "/items/">>,
      <<"PUT", "/items/{item_id}">>,
      <<"DELETE", "/items/{item_id}">>,
      <<"GET", "/search/">>,
      <<"POST", "/users/">>,
      <<"GET", "/async-example/">>,
      <<"GET", "/items/{item_id}/status">> }

\* A request reaches a handler when its method and path are registered; a
\* path registered for other methods only answers 405, an unknown path 404.
Dispatch(method, path) ==
    IF <<method, path>> \in Routes THEN 200
    ELSE IF \E r \in Routes : r[2] = path THEN 405
    ELSE 404

-----------------------------------------------------------------------------
(* Statements *)

\* SELECT id FROM items WHERE id = ?  ... fetchone() is not None
ItemExists(table, item_id) == item_id \in DOMAIN table

\* INSERT OR REPLACE in place of UPDATE: a missing row is made.
UpsertRows(table, item_id, item) ==
    [table |-> (item_id :> ItemRow(item.name, item.price, item.is_offer)) @@ table,
     rowcount |-> 1]

\* UPDATE items SET name = ?, price = ?, is_offer = ? WHERE id = ?
UpdateRows(table, item_id, item) ==
    IF item_id \in DOMAIN table
    THEN [table |-> [table EXCEPT ![item_id] = ItemRow(item.name, item.price, item.is_offer)],
          rowcount |-> 1]
    ELSE [table |-> table, rowcount |-> 0]

\* WHERE id <= ? in place of WHERE id = ?
DeleteRowsUpTo(table, item_id) ==
    [table |-> [i \in {j \in DOMAIN table : j > item_id} |-> table[i]],
     rowcount |-> Cardinality({j \in DOMAIN table : j <= item_id})]

\* DELETE FROM items WHERE id = ?
DeleteRows(table, item_id) ==
    IF item_id \in DOMAIN table
    THEN [table |-> Without(table, item_id), rowcount |-> 1]
    ELSE [table |-> table, rowcount |-> 0]

\* UNIQUE on the username alone.
UsernameViolation(table, user) ==
    \E i \in DOMAIN table : table[i].username = user.username

\* username TEXT NOT NULL UNIQUE, email TEXT NOT NULL UNIQUE: the INSERT
\* raises sqlite3.IntegrityError when a row holds the username or the email.
UniqueViolation(table, user) ==
    \E i \in DOMAIN table :
        table[i].username = user.username \/ table[i].email = user.email

UserRow(user) ==
    [username |-> user.username, email |-> user.email, full_name |-> user.full_name]

User(id, username, email, full_name) ==
    [id |-> id, username |-> username, email |-> email, full_name |-> full_name]

-----------------------------------------------------------------------------
(* Startup *)

Init ==
    LET db == InitDb(EmptyTable, 0, EmptyTable, 0)
    IN  /\ items = db.items
        /\ itemSeq = db.itemSeq
        /\ users = db.users
        /\ userSeq = db.userSeq
        /\ tx = NoTx
        /\ resp = NoResp
        /\ deleted = {}
        /\ everItem = DOMAIN db.items
        /\ everUser = DOMAIN db.users
        /\ posted = EmptyTable

\* The application is stopped and started again: the requests in flight end
\* with the process (an open transaction is rolled back) and init_db() runs
\* on the file as the last run left it.
Restart ==
    LET db == InitDb(items, itemSeq, users, userSeq)
    IN  /\ db.itemSeq <= MaxSeedId
        /\ items' = db.items
        /\ itemSeq' = db.itemSeq
        /\ users' = db.users
        /\ userSeq' = db.userSeq
        /\ tx' = NoTx
        /\ resp' = NoResp
        /\ everItem' = everItem \cup DOMAIN db.items
        /\ everUser' = everUser \cup DOMAIN db.users
        /\ UNCHANGED <<deleted, posted>>

-----------------------------------------------------------------------------
(* POST /items/  (create_item) *)

\* connect, INSERT, cursor.lastrowid
CreateItemStatement(item) ==
    /\ Dispatch("POST", "/items/") = 200
    /\ tx = NoTx
    /\ itemSeq < MaxItemId
    /\ LET item_id == NextRowid(items, itemSeq)
       IN  tx' = [op |-> "create_item", item |-> item, item_id |-> item_id,
                  table |-> (item_id :> ItemRow(item.name, item.price, item.is_offer)) @@ items]
    /\ resp' = NoResp
    /\ UNCHANGED <<store, deleted, everItem, everUser, posted>>

\* commit, close, return
CreateItemReturn ==
    /\ tx.op = "create_item"
    /\ items' = tx.table
    /\ itemSeq' = tx.item_id
    /\ resp' = Reply("create_item", [item |-> tx.item],
                     [item |-> Item(Some(tx.item_id), tx.item.name, tx.item.price, tx.item.is_offer),
                      message |-> "Item created successfully"],
                     TRUE)
    /\ tx' = NoTx
    /\ everItem' = everItem \cup {tx.item_id}
    /\ posted' = (tx.item_id :> [item |-> tx.item, updated |-> FALSE]) @@ posted
    /\ UNCHANGED <<users, userSeq, deleted, everUser>>

-----------------------------------------------------------------------------
(* PUT /items/{item_id}  (update_item) *)

\* connect, UPDATE; with rowcount 0: close and raise 404
UpdateItemStatement(item_id, item) ==
    /\ Dispatch("PUT", "/items/{item_id}") = 200
    /\ tx = NoTx
    /\ LET r == UpdateRows(items, item_id, item)
       IN  IF r.rowcount = 0
           THEN /\ tx' = NoTx
                /\ resp' = HttpError("update_item", [item_id |-> item_id, item |-> item],
                                       404, "Item not found")
           ELSE /\ tx' = [op |-> "update_item", item |-> item, item_id |-> item_id,
                          table |-> r.table]
                /\ resp' = NoResp
    /\ UNCHANGED <<store, deleted, everItem, everUser, posted>>

\* commit, close, return
UpdateItemReturn ==
    /\ tx.op = "update_item"
    /\ items' = tx.table
    /\ resp' = Reply("update_item", [item_id |-> tx.item_id, item |-> tx.item],
                     [item_id |-> tx.item_id, item |-> tx.item, message |-> "Item updated"],
                     TRUE)
    /\ tx' = NoTx
    /\ posted' = IF tx.item_id \in DOMAIN posted
                 THEN [posted EXCEPT ![tx.item_id].updated = TRUE]
                 ELSE posted
    /\ UNCHANGED <<itemSeq, users, userSeq, deleted, everItem, everUser>>

-----------------------------------------------------------------------------
(* DELETE /items/{item_id}  (delete_item) *)

\* connect, DELETE; with rowcount 0: close and raise 404
DeleteItemStatement(item_id) ==
    /\ Dispatch("DELETE", "/items/{item_id}") = 200
    /\ tx = NoTx
    /\ LET r == DeleteRows(items, item_id)
       IN  IF r.rowcount = 0
           THEN /\ tx' = NoTx
                /\ resp' = HttpError("delete_item", [item_id |-> item_id], 404, "Item not found")
           ELSE /\ tx' = [op |-> "delete_item", item_id |-> item_id, table |-> r.table]
                /\ resp' = NoResp
    /\ UNCHANGED <<store, deleted, everItem, everUser, posted>>

\* commit, close, return
DeleteItemReturn ==
    /\ tx.op = "delete_item"
    /\ items' = tx.table
    /\ resp' = Reply("delete_item", [item_id |-> tx.item_id],
                     [message |-> <<"Item", tx.item_id, "deleted">>], TRUE)
    /\ tx' = NoTx
    /\ deleted' = deleted \cup {tx.item_id}
    /\ posted' = Without(posted, tx.item_id)
    /\ UNCHANGED <<itemSeq, users, userSeq, everItem, everUser>>

-----------------------------------------------------------------------------
(* POST /users/  (create_user) *)

\* connect, INSERT, cursor.lastrowid; on sqlite3.IntegrityError: close and raise 400
CreateUserStatement(user) ==
    /\ Dispatch("POST", "/users/") = 200
    /\ tx = NoTx
    /\ IF UniqueViolation(users, user)
       THEN /\ tx' = NoTx
            /\ resp' = HttpError("create_user", [user |-> user],
                                  400, "Username or email already exists")
       ELSE /\ userSeq < MaxUserId
            /\ LET user_id == NextRowid(users, userSeq)
               IN  tx' = [op |-> "create_user", user |-> user, user_id |-> user_id,
                          table |-> (user_id :> UserRow(user)) @@ users]
            /\ resp' = NoResp
    /\ UNCHANGED <<store, deleted, everItem, everUser, posted>>

\* commit, close, return
CreateUserReturn ==
    /\ tx.op = "create_user"
    /\ users' = tx.table
    /\ userSeq' = tx.user_id
    /\ resp' = Reply("create_user", [user |-> tx.user],
                     [user |-> User(Some(tx.user_id), tx.user.username, tx.user.email, tx.user.full_name),
                      message |-> "User created"],
                     TRUE)
    /\ tx' = NoTx
    /\ everUser' = everUser \cup {tx.user_id}
    /\ UNCHANGED <<items, itemSeq, deleted, everItem, posted>>

-----------------------------------------------------------------------------
(* A write handler whose statement meets the write lock of another request *)

WriteOps == {"create_item", "update_item", "delete_item", "create_user"}

\* While another connection holds the write lock the statement waits (no
\* step) and, when the connection's busy timeout runs out, raises
\* sqlite3.OperationalError.  No handler catches it, so the handler is left
\* before its conn.close().
StatementLocked(op) ==
    /\ tx # NoTx
    /\ resp' = Unhandled(op)
    /\ UNCHANGED <<store, tx, deleted, everItem, everUser, posted>>

-----------------------------------------------------------------------------
(* GET /items/  (list_items) *)

ListItems ==
    /\ Dispatch("GET", "/items/") = 200
    /\ LET rows == ItemsOf(items, DOMAIN items)
       IN  resp' = Reply("list_items", <<>>, [items |-> rows, count |-> Len(rows)], FALSE)
    /\ UNCHANGED <<store, tx, deleted, everItem, everUser, posted>>

-----------------------------------------------------------------------------
(* GET /items/{item_id}/status  (read_item_with_status) *)

\* The handler of the same route in test.py: only 999 is not found.
StatusOnly999(table, item_id) ==
    IF item_id = 999
    THEN HttpError("read_item_with_status", [item_id |-> item_id], 404, "Item not found")
    ELSE Reply("read_item_with_status", [item_id |-> item_id],
               [item_id |-> item_id, status |-> "found"], FALSE)

\* connect, SELECT, close; raise 404 unless a row came back
StatusResponse(table, item_id) ==
    IF ~ItemExists(table, item_id)
    THEN HttpError("read_item_with_status", [item_id |-> item_id], 404, "Item not found")
    ELSE Reply("read_item_with_status", [item_id |-> item_id],
               [item_id |-> item_id, status |-> "found"], FALSE)

ReadItemWithStatus(item_id) ==
    /\ Dispatch("GET", "/items/{item_id}/status") = 200
    /\ resp' = StatusResponse(items, item_id)
    /\ UNCHANGED <<store, tx, deleted, everItem, everUser, posted>>

-----------------------------------------------------------------------------
(* GET /items/{item_id} *)

\* The body that follows the return of the second list_items (the fetch by
\* id): connect, SELECT ... WHERE id = ?, close; the item with q, or 404.
ReadItemBody(table, item_id, q) ==
    IF item_id \in DOMAIN table
    THEN Reply("read_item", [item_id |-> item_id, q |-> q],
               [item |-> ItemOfRow(item_id, table[item_id]), q |-> q], FALSE)
    ELSE HttpError("read_item", [item_id |-> item_id, q |-> q], 404, "Item not found")

\* No decorator registers GET for /items/{item_id}: the request is answered
\* by the router and the fetch by id never runs.
ReadItem(item_id, q) ==
    /\ resp' = IF Dispatch("GET", "/items/{item_id}") = 200
               THEN ReadItemBody(items, item_id, q)
               ELSE RouterError("read_item", [item_id |-> item_id, q |-> q],
                                Dispatch("GET", "/items/{item_id}"))
    /\ UNCHANGED <<store, tx, deleted, everItem, everUser, posted>>

-----------------------------------------------------------------------------
(* GET /search/  (search_items) *)

\* A comparison that tells upper from lower case.
CaseSensitive(c) == c

\* SQLite's LIKE folds the 26 ASCII upper-case letters onto lower case
\* before it compares two characters.
Fold(c) ==
    CASE c = "A" -> "a" [] c = "B" -> "b" [] c = "C" -> "c" [] c = "D" -> "d"
      [] c = "E" -> "e" [] c = "F" -> "f" [] c = "G" -> "g" [] c = "H" -> "h"
      [] c = "I" -> "i" [] c = "J" -> "j" [] c = "K" -> "k" [] c = "L" -> "l"
      [] c = "M" -> "m" [] c = "N" -> "n" [] c = "O" -> "o" [] c = "P" -> "p"
      [] c = "Q" -> "q" [] c = "R" -> "r" [] c = "S" -> "s" [] c = "T" -> "t"
      [] c = "U" -> "u" [] c = "V" -> "v" [] c = "W" -> "w" [] c = "X" -> "x"
      [] c = "Y" -> "y" [] c = "Z" -> "z" [] OTHER -> c

\* text LIKE pattern: % stands for any run of characters (also none), _ for
\* exactly one character, any other character for itself up to ASCII case.
RECURSIVE Like(_, _)
Like(text, pattern) ==
    IF pattern = <<>> THEN text = <<>>
    ELSE IF Head(pattern) = "%"
         THEN Like(text, Tail(pattern)) \/ (text # <<>> /\ Like(Tail(text), pattern))
    ELSE IF text = <<>> THEN FALSE
    ELSE IF Head(pattern) = "_" THEN Like(Tail(text), Tail(pattern))
    ELSE Fold(Head(text)) = Fold(Head(pattern)) /\ Like(Tail(text), Tail(pattern))

\* The price bounds taken as exclusive (> and < in place of >= and <=).
SearchMatchesExclusive(row, name, price_min, price_max) ==
    /\ (name.some /\ name.val # <<>>) => Like(row.name, <<"%">> \o name.val \o <<"%">>)
    /\ price_min.some => row.price > price_min.val
    /\ price_max.some => row.price < price_max.val

\* The WHERE clause search_items builds: 1=1, AND name LIKE '%' + name + '%'
\* if name is truthy, AND price >= price_min / price <= price_max if the
\* bound is not None.
SearchMatches(row, name, price_min, price_max) ==
    /\ (name.some /\ name.val # <<>>) => Like(row.name, <<"%">> \o name.val \o <<"%">>)
    /\ price_min.some => row.price >= price_min.val
    /\ price_max.some => row.price <= price_max.val

SearchResponse(table, name, price_min, price_max) ==
    LET rows == ItemsOf(table, {id \in DOMAIN table :
                                   SearchMatches(table[id], name, price_min, price_max)})
        req  == [name |-> name, price_min |-> price_min, price_max |-> price_max]
    IN  Reply("search_items", req,
              [items |-> rows,
               filters |-> [name |-> name, price_min |-> price_min, price_max |-> price_max],
               count |-> Len(rows)],
              FALSE)

SearchItems(name, price_min, price_max) ==
    /\ Dispatch("GET", "/search/") = 200
    /\ resp' = SearchResponse(items, name, price_min, price_max)
    /\ UNCHANGED <<store, tx, deleted, everItem, everUser, posted>>

\* The searches offered next to the other requests: none of the filters, and
\* the one the usage notes give (/search/?name=laptop).
SearchRequests ==
    { [name |-> NoneText, price_min |-> NoneInt, price_max |-> NoneInt],
      [name |-> Some(<<"l","a","p","t","o","p">>), price_min |-> NoneInt, price_max |-> NoneInt] }

-----------------------------------------------------------------------------
(* The service *)

Next ==
    \/ Restart
    \/ \E item \in ItemBodies : CreateItemStatement(item)
    \/ CreateItemReturn
    \/ \E item_id \in PathIds, item \in UpdateBodies : UpdateItemStatement(item_id, item)
    \/ UpdateItemReturn
    \/ \E item_id \in DeleteIds : DeleteItemStatement(item_id)
    \/ DeleteItemReturn
    \/ \E user \in UserBodies : CreateUserStatement(user)
    \/ CreateUserReturn
    \/ \E op \in WriteOps : StatementLocked(op)
    \/ ListItems
    \/ \E item_id \in PathIds : ReadItemWithStatus(item_id)
    \/ \E r \in ReadRequests : ReadItem(r[1], r[2])
    \/ \E r \in SearchRequests : SearchItems(r.name, r.price_min, r.price_max)

Spec == Init /\ [][Next]_vars

-----------------------------------------------------------------------------
(* The search on its own: every small items table, every combination of filters *)

\* The rows searched: names that differ in case only, names with and without
\* the pattern characters, the empty name; prices on and around the bounds
\* 100 and 200.
SearchRows ==
    { ItemRow(<<"P","e","n">>, 10000, Some(TRUE)),
      ItemRow(<<"p","e","n">>, 20001, NoneBool),
      ItemRow(<<"a","_","b">>, 20000, Some(FALSE)),
      ItemRow(<<"a","x","b">>, 9999,  NoneBool),
      ItemRow(<<"5","%">>,     10000, Some(TRUE)),
      ItemRow(<<>>,            20000, NoneBool) }

\* Rows per table searched.
MaxRows == 2

SearchTables == UNION { [ids -> SearchRows] : ids \in SUBSET (1 .. MaxRows) }

NameFilters ==
    { NoneText, Some(<<>>), Some(<<"p","e","n">>), Some(<<"P">>), Some(<<"_">>),
      Some(<<"%">>), Some(<<"a","_","b">>), Some(<<"z">>) }

PriceFilters == { NoneInt, Some(0), Some(10000), Some(20000) }

\* The file after the first startup and some PUT and DELETE requests: the
\* ids of sample rows, holding any of the rows above.
InitSearch ==
    LET db == InitDb(EmptyTable, 0, EmptyTable, 0)
    IN  /\ items \in SearchTables
        /\ itemSeq = db.itemSeq
        /\ users = db.users
        /\ userSeq = db.userSeq
        /\ tx = NoTx
        /\ resp = NoResp
        /\ deleted = DOMAIN db.items \ DOMAIN items
        /\ everItem = DOMAIN db.items
        /\ everUser = DOMAIN db.users
        /\ posted = EmptyTable

NextSearch ==
    \E name \in NameFilters, price_min \in PriceFilters, price_max \in PriceFilters :
        SearchItems(name, price_min, price_max)

SpecSearch == InitSearch /\ [][NextSearch]_vars

-----------------------------------------------------------------------------
(* Properties *)

\* The items of a listing or search response, as a set.
Listed(r) == { r.body.items[k] : k \in 1 .. Len(r.body.items) }

\* The item a POST /items/ body describes, under the id the store gave it.
AsPosted(id) ==
    Item(Some(id), posted[id].item.name, posted[id].item.price, posted[id].item.is_offer)

\* POST /items/ answers with an id no row of the table had before the request.
CreateItemIdIsNew ==
    (resp'.op = "create_item" /\ resp'.status = 200 /\ resp' # resp)
        => /\ resp'.body.item.id.some
           /\ resp'.body.item.id.val \notin DOMAIN items
           /\ resp'.body.item.id.val \in DOMAIN items'

\* C1 as stated: POST /items/ returns an id that no row had before, and every
\* later listing, with no DELETE of that id in between, holds a row with
\* that id and the posted name, price and is_offer.
C1_AsStated ==
    /\ [][CreateItemIdIsNew]_vars
    /\ [](resp.op = "list_items" =>
            \A id \in DOMAIN posted : AsPosted(id) \in Listed(resp))

\* C1 amended: POST /items/ returns an id that no row had before, and every
\* later listing, with no DELETE and no PUT of that id in between, holds a
\* row with that id and the posted name, price and is_offer.
C1_CreatedItemIsListed ==
    /\ [][CreateItemIdIsNew]_vars
    /\ [](resp.op = "list_items" =>
            \A id \in DOMAIN posted :
                ~posted[id].updated => AsPosted(id) \in Listed(resp))

\* A listing that holds a row made by an earlier POST /items/ as it was posted.
C1_Witness ==
    /\ resp.op = "list_items"
    /\ \E id \in DOMAIN posted : ~posted[id].updated /\ AsPosted(id) \in Listed(resp)

-----------------------------------------------------------------------------

-----------------------------------------------------------------------------

\* C3: once a DELETE of an id has succeeded, the table and every listing are
\* without that id for good, whatever requests and restarts follow; and the
\* DELETE takes exactly that row out and leaves the other rows as they were.
C3_DeletedStaysDeleted ==
    /\ [](\A id \in deleted :
            /\ id \notin DOMAIN items
            /\ resp.op = "list_items" => \A it \in Listed(resp) : it.id # Some(id))
    /\ [][ (resp'.op = "delete_item" /\ resp'.status = 200 /\ resp' # resp)
           => ( /\ resp'.req.item_id \in DOMAIN items
                /\ DOMAIN items' = DOMAIN items \ {resp'.req.item_id}
                /\ \A j \in DOMAIN items' : items'[j] = items[j] ) ]_vars

\* A listing taken after every sample row was deleted and a restart filled
\* the table again: it holds rows, and none under a deleted id.
C3_Witness ==
    /\ resp.op = "list_items"
    /\ resp.body.count > 0
    /\ DOMAIN dummy_items \subseteq deleted
    /\ \A it \in Listed(resp) : it.id.val \notin deleted

-----------------------------------------------------------------------------

-----------------------------------------------------------------------------

\* C7: GET /items/{id}/status answers 404 exactly when no row has the id,
\* otherwise "found" with the same id; the request changes nothing in the store.
C7_StatusIffExists ==
    /\ [](resp.op = "read_item_with_status" =>
            IF resp.req.item_id \in DOMAIN items
            THEN /\ resp.status = 200
                 /\ resp.body = [item_id |-> resp.req.item_id, status |-> "found"]
            ELSE resp.status = 404)
    /\ [][ (resp'.op = "read_item_with_status" /\ resp' # resp)
           => (UNCHANGED store /\ UNCHANGED tx) ]_vars

\* 404 for an id other than 999: that of a row that was deleted.
C7_Witness ==
    /\ resp.op = "read_item_with_status"
    /\ resp.status = 404
    /\ resp.req.item_id \in deleted

-----------------------------------------------------------------------------

\* C8 as stated: GET /items/{id} answers with the stored record and q for an
\* id in the table, and with 404 for an id that is not.
C8_AsStated ==
    resp.op = "read_item" =>
        IF resp.req.item_id \in DOMAIN items
        THEN /\ resp.status = 200
             /\ resp.body = [item |-> ItemOfRow(resp.req.item_id, items[resp.req.item_id]),
                             q |-> resp.req.q]
        ELSE resp.status = 404

-----------------------------------------------------------------------------

\* C9: every row that enters items or users does so under an id that no
\* earlier row of that table ever had, whether it comes from a POST or from
\* the sample rows of a restart; the id a POST answers with is that of the
\* new row, and it is not the id the client put into the body.
C9_IdsNeverReused ==
    [][ /\ \A id \in DOMAIN items' \ DOMAIN items : id \notin everItem
        /\ \A id \in DOMAIN users' \ DOMAIN users : id \notin everUser
        /\ (resp'.op = "create_item" /\ resp'.status = 200 /\ resp' # resp)
             => /\ resp'.body.item.id.val \in DOMAIN items' \ DOMAIN items
                /\ resp'.req.item.id.some => resp'.body.item.id # resp'.req.item.id
        /\ (resp'.op = "create_user" /\ resp'.status = 200 /\ resp' # resp)
             => /\ resp'.body.user.id.val \in DOMAIN users' \ DOMAIN users
                /\ resp'.req.user.id.some => resp'.body.user.id # resp'.req.user.id ]_vars

\* A POST /items/ with an id in its body, answered after every earlier row
\* (the one with the highest id too) was deleted: the new row is the only one.
C9_Witness ==
    /\ resp.op = "create_item"
    /\ resp.status = 200
    /\ resp.req.item.id.some
    /\ DOMAIN items = {resp.body.item.id.val}
    /\ DOMAIN dummy_items \subseteq deleted

-----------------------------------------------------------------------------

\* C10 as stated: a request that opened a connection has closed it when it
\* ends, whatever its outcome, and a write handler has committed exactly
\* when it changed a row.
C10_AsStated ==
    (resp.op # "none" /\ resp.conn # "none") =>
        /\ resp.conn = "closed"
        /\ resp.committed <=> (resp.op \in WriteOps /\ resp.status = 200)

-----------------------------------------------------------------------------

\* The step in which a request of handler op ends in success.
Succeeds(op) == resp'.op = op /\ resp'.status = 200 /\ resp' # resp

\* A successful PUT overwrites name, price and is_offer of exactly the row
\* with the path id; its id and every other row stay as they were.
UpdateOverwritesOneRow ==
    Succeeds("update_item") =>
        LET id == resp'.req.item_id
            b  == resp'.req.item
        IN  /\ id \in DOMAIN items
            /\ DOMAIN items' = DOMAIN items
            /\ items'[id] = ItemRow(b.name, b.price, b.is_offer)
            /\ \A j \in DOMAIN items \ {id} : items'[j] = items[j]

\* The item a successful POST /items/ answers with is the new row as stored.
CreateEchoesStoredRow ==
    Succeeds("create_item") =>
        LET it == resp'.body.item
        IN  /\ it.id.some
            /\ it.id.val \in DOMAIN items'
            /\ it = ItemOfRow(it.id.val, items'[it.id.val])

\* C11 as stated: on success, POST /items/ and PUT /items/{id} answer with
\* the record as it is stored after the request: the PUT overwrites name,
\* price and is_offer of exactly the row with the path id, and the id, name,
\* price and is_offer of the item in the response are those of that row,
\* also for a body that carries an id of its own.
C11_AsStated ==
    [][ /\ CreateEchoesStoredRow
        /\ UpdateOverwritesOneRow
        /\ Succeeds("update_item") =>
              resp'.body.item = ItemOfRow(resp'.req.item_id, items'[resp'.req.item_id]) ]_vars

\* What holds of the PUT answer: item_id is the path id, and name, price and
\* is_offer of the item are those of the stored row; the item's id is the
\* id field of the body, whatever the path id.
PutEchoesBody ==
    [][ /\ CreateEchoesStoredRow
        /\ UpdateOverwritesOneRow
        /\ Succeeds("update_item") =>
              LET row == ItemOfRow(resp'.req.item_id, items'[resp'.req.item_id])
                  it  == resp'.body.item
              IN  /\ resp'.body.item_id = resp'.req.item_id
                  /\ it.name = row.name /\ it.price = row.price /\ it.is_offer = row.is_offer
                  /\ it.id = resp'.req.item.id ]_vars

-----------------------------------------------------------------------------

\* C12 as stated: the sample rows are inserted on the first startup only: a
\* later startup, whatever requests came before it (the deletion of every
\* item too), inserts no row into items or users and leaves both tables as
\* the run before left them.
C12_AsStated ==
    [][ Restart => (items' = items /\ users' = users) ]_vars

\* What holds of a later startup: a table that holds a row is left as it
\* was, and a table that holds none gets the sample rows again, under new ids.
StartupFillsEmptyTables ==
    [][ Restart =>
          /\ users' = users
          /\ items # EmptyTable => items' = items
          /\ items = EmptyTable =>
                /\ Cardinality(DOMAIN items') = Len(dummy_items)
                /\ DOMAIN items' \cap everItem = {} ]_vars

-----------------------------------------------------------------------------
(* What a name filter selects *)

\* text occurs in name, character for character.
Contains(name, text) ==
    \E k \in 0 .. (Len(name) - Len(text)) :
        \A i \in 1 .. Len(text) : name[k + i] = text[i]

UpperCase ==
    << "A","B","C","D","E","F","G","H","I","J","K","L","M",
       "N","O","P","Q","R","S","T","U","V","W","X","Y","Z" >>

LowerCase ==
    << "a","b","c","d","e","f","g","h","i","j","k","l","m",
       "n","o","p","q","r","s","t","u","v","w","x","y","z" >>

\* The same character, or the upper and lower case of one ASCII letter.
SameLetter(a, b) ==
    \/ a = b
    \/ \E k \in DOMAIN UpperCase : {a, b} = {UpperCase[k], LowerCase[k]}

\* name matches the pattern % text %: the characters of text other than %
\* can be laid on positions of name from left to right, neighbours in text
\* on neighbouring positions, each _ on any character and every other one
\* on the same letter in either case.
MatchesPattern(name, text) ==
    LET pattern == <<"%">> \o text \o <<"%">>
        fixed   == {i \in DOMAIN pattern : pattern[i] # "%"}
    IN  \E at \in [fixed -> DOMAIN name] :
            \A i \in fixed :
                /\ pattern[i] = "_" \/ SameLetter(pattern[i], name[at[i]])
                /\ \A j \in fixed : /\ j > i => at[j] > at[i]
                                    /\ j = i + 1 => at[j] = at[i] + 1

\* The rows a search answers with are those of the ids in want, each once.
Answers(r, want) ==
    /\ Listed(r) = { ItemOfRow(id, items[id]) : id \in want }
    /\ Len(r.body.items) = Cardinality(want)

-----------------------------------------------------------------------------

\* C4 as stated: a search answers with exactly the rows whose name contains
\* the name filter and whose price lies within the bounds, both inclusive,
\* a filter that is not supplied leaving the rows alone; count is the number
\* of rows answered and the filters come back as supplied.
C4_AsStated ==
    resp.op = "search_items" =>
        LET f == resp.req
            want == { id \in DOMAIN items :
                        /\ f.name.some => Contains(items[id].name, f.name.val)
                        /\ f.price_min.some => items[id].price >= f.price_min.val
                        /\ f.price_max.some => items[id].price <= f.price_max.val }
        IN  /\ Answers(resp, want)
            /\ resp.body.count = Len(resp.body.items)
            /\ resp.body.filters = f

\* C4 amended: as stated, with "name contains the text" read as the store's
\* pattern match: name matches % text %, letters compared without regard to
\* ASCII case, _ in the text standing for any one character and % for any run.
C4_SearchAppliesAllFilters ==
    resp.op = "search_items" =>
        LET f == resp.req
            want == { id \in DOMAIN items :
                        /\ f.name.some => MatchesPattern(items[id].name, f.name.val)
                        /\ f.price_min.some => items[id].price >= f.price_min.val
                        /\ f.price_max.some => items[id].price <= f.price_max.val }
        IN  /\ Answers(resp, want)
            /\ resp.body.count = Len(resp.body.items)
            /\ resp.body.filters = f
            /\ (~f.name.some /\ ~f.price_min.some /\ ~f.price_max.some)
                  => resp.body.count = Cardinality(DOMAIN items)

\* A search with a name and both bounds, price_min=100 and price_max=200,
\* that answers with a row priced at a bound and leaves another row out.
C4_Witness ==
    /\ resp.op = "search_items"
    /\ resp.req.name.some /\ resp.req.name.val # <<>>
    /\ resp.req.price_min = Some(10000)
    /\ resp.req.price_max = Some(20000)
    /\ \E it \in Listed(resp) : it.price = 10000 \/ it.price = 20000
    /\ resp.body.count < Cardinality(DOMAIN items)

-----------------------------------------------------------------------------

\* C5 as stated: with a name filter, the rows answered are those whose name
\* contains the text character for character (a name that differs from the
\* text in letter case only is left out); every such row within the price
\* bounds is answered.
C5_AsStated ==
    (resp.op = "search_items" /\ resp.req.name.some) =>
        LET f == resp.req
        IN  /\ \A it \in Listed(resp) : Contains(it.name, f.name.val)
            /\ (~f.price_min.some /\ ~f.price_max.some)
                  => Answers(resp, { id \in DOMAIN items : Contains(items[id].name, f.name.val) })

\* C5 amended: with a name filter, the rows answered are those whose name
\* matches % text %: letters are compared without regard to ASCII case (a
\* name that differs from the text in letter case only is answered), _ in the
\* text stands for any one character and % for any run of characters.
C5_NameFilterIsLike ==
    (resp.op = "search_items" /\ resp.req.name.some) =>
        LET f == resp.req
        IN  /\ \A it \in Listed(resp) : MatchesPattern(it.name, f.name.val)
            /\ (~f.price_min.some /\ ~f.price_max.some)
                  => Answers(resp, { id \in DOMAIN items : MatchesPattern(items[id].name, f.name.val) })
            /\ \A id \in DOMAIN items :
                  ( /\ ~f.price_min.some /\ ~f.price_max.some
                    /\ Len(items[id].name) = Len(f.name.val)
                    /\ \A i \in DOMAIN f.name.val : SameLetter(items[id].name[i], f.name.val[i]) )
                  => ItemOfRow(id, items[id]) \in Listed(resp)

\* A search for "pen" that answers with the row named "Pen".
C5_Witness ==
    /\ resp.op = "search_items"
    /\ resp.req.name = Some(<<"p","e","n">>)
    /\ \E it \in Listed(resp) : it.name = <<"P","e","n">>

=============================================================================
